---- MODULE Spec2Model ----
(***************************************************************************)
(* Model of the presentational components of the repository:               *)
(*   - Alert         (components/alert/alert.tsx)                          *)
(*   - AlertContent  (components/alert/alert-content.tsx)                  *)
(*   - Button        (components/button/button.tsx, src/unnamed/part_000)  *)
(*                                                                         *)
(* An optional JavaScript value is modelled as a sequence of length <= 1:  *)
(* <<>> is `undefined`, <<v>> is the value v.                              *)
(***************************************************************************)
EXTENDS Integers, Sequences, FiniteSets, TLC

VARIABLES
    \* ---- Alert (alert.tsx) ----
    visible,            \* prop `visible: boolean`
    isLoading,          \* prop `isLoading?: boolean`
    onChange,           \* prop `onChange?`: None, or Some("onChange") when supplied
    modalProps,         \* `...modalProps`: the set of host-modal keys the caller passes
    hostShown,          \* whether the host modal is currently presented
    onChangeCalls,      \* the arguments onChange has been invoked with, in order
    passthroughCalls,   \* the caller's own modal handlers invoked by the host
    raised,             \* TRUE once a handler has thrown (call of an absent callback)
    alertEvent,         \* the last event delivered to the Alert
    nAlertEvents,       \* number of events delivered to the Alert
    \* ---- AlertContent (alert-content.tsx) ----
    contentHeight,      \* useState(0)
    layoutLog,          \* heights the host measured for the mounted root element
    \* ---- Button (part_000) ----
    buttonColorOverrides, buttonVariant, colorScheme, disabled, pressed,
    modifier, widthOption, bodyStyleOverrides,
    buttonContainerHeight, buttonContainerWidth,   \* useState(undefined) each
    lastLayout,         \* the raw {height, width} of the latest container layout event
    nLayouts            \* number of container layout events delivered

alertVars == <<visible, isLoading, onChange, modalProps, hostShown, onChangeCalls,
               passthroughCalls, raised, alertEvent, nAlertEvents>>
contentVars == <<contentHeight, layoutLog>>
buttonVars == <<buttonColorOverrides, buttonVariant, colorScheme, disabled, pressed,
                modifier, widthOption, bodyStyleOverrides,
                buttonContainerHeight, buttonContainerWidth, lastLayout, nLayouts>>
vars == <<alertVars, contentVars, buttonVars>>

None == <<>>
Some(v) == <<v>>

\* a ?? b
Coalesce(a, b) == IF a = None THEN b ELSE a

(***************************************************************************)
(* Bounds                                                                  *)
(***************************************************************************)
MaxAlertEvents == 4
MaxContentLayouts == 4
MaxContentHeight == 3
MaxButtonLayouts == 2
MaxDim == 3

(***************************************************************************)
(* Alert                                                                   *)
(***************************************************************************)
\* keys of ModalProps a caller may pass through
PassthroughKeys == {"onRequestClose", "onShow", "onDismiss", "animationType"}

\* onChange?.(value): the optional call invokes the callback only when supplied
\* and never throws.
OptionalCallThrows(cb) == FALSE

UncheckedCallThrows(cb) == cb = None

CallThrows(cb) == OptionalCallThrows(cb)

\* the invocations `onChange?.(value)` adds to the log
CallOnChange(value) == IF onChange = None THEN <<>> ELSE <<value>>

\* const onShow = useCallback(() => onChange?.(true), [onChange])
\* (a handler is modelled by the onChange invocations one call of it makes)
onShow == CallOnChange(TRUE)

\* const onHide = useCallback(() => onChange?.(false), [onChange])
onHide == CallOnChange(FALSE)

DismissIsOnShow == onShow

\* const providerValue = useMemo(() => ({ dismiss: onHide }), [onHide])
dismiss == onHide

\* <Modal onRequestClose={onHide} onShow={onShow} onDismiss={onHide} ...>
OwnHandler(key) == IF key = "onShow" THEN onShow ELSE onHide

\* {...modalProps} is spread after the Alert's own handlers: a key the caller
\* passes replaces the Alert's handler on the host modal.
Overridden(key) == key \in modalProps

ModalVisibleIgnoresLoading(v, l) == v

\* visible={visible || isLoading === true}
ModalVisible(v, l) == v \/ l = Some(TRUE)

\* {isLoading ? <LoadingIndicatorOverlay /> : <AlertContainer ...>}
Content(l) == IF l = Some(TRUE) THEN "LoadingIndicatorOverlay" ELSE "AlertContainer"

\* the host invokes the handler the modal holds under `key`
HostInvoke(key) ==
    IF Overridden(key)
    THEN /\ passthroughCalls' = Append(passthroughCalls, key)
         /\ UNCHANGED <<onChangeCalls, raised>>
    ELSE /\ onChangeCalls' = onChangeCalls \o OwnHandler(key)
         /\ raised' = (raised \/ CallThrows(onChange))
         /\ UNCHANGED passthroughCalls

AlertStep(name) ==
    /\ nAlertEvents < MaxAlertEvents
    /\ nAlertEvents' = nAlertEvents + 1
    /\ alertEvent' = name

\* the host presented the modal and fires onShow
HostShow ==
    /\ ModalVisible(visible, isLoading) /\ ~hostShown
    /\ AlertStep("show")
    /\ hostShown' = TRUE
    /\ HostInvoke("onShow")
    /\ UNCHANGED <<visible, isLoading, onChange, modalProps, contentVars, buttonVars>>

\* the host took the modal down and fires onDismiss
HostDismiss ==
    /\ ~ModalVisible(visible, isLoading) /\ hostShown
    /\ AlertStep("dismiss")
    /\ hostShown' = FALSE
    /\ HostInvoke("onDismiss")
    /\ UNCHANGED <<visible, isLoading, onChange, modalProps, contentVars, buttonVars>>

\* the user asks the host to close the presented modal (hardware back button)
HostRequestClose ==
    /\ hostShown
    /\ AlertStep("requestClose")
    /\ HostInvoke("onRequestClose")
    /\ UNCHANGED <<visible, isLoading, onChange, modalProps, hostShown, contentVars, buttonVars>>

\* a descendant calls useContext(AlertContextImpl).dismiss()
ContextDismiss ==
    /\ AlertStep("contextDismiss")
    /\ onChangeCalls' = onChangeCalls \o dismiss
    /\ raised' = (raised \/ CallThrows(onChange))
    /\ UNCHANGED <<visible, isLoading, onChange, modalProps, hostShown, passthroughCalls,
                   contentVars, buttonVars>>

\* the caller re-renders the Alert with other visible / isLoading props
SetAlertProps ==
    /\ AlertStep("props")
    /\ \E v \in BOOLEAN, l \in {None, Some(TRUE), Some(FALSE)} :
          /\ <<v, l>> # <<visible, isLoading>>
          /\ visible' = v
          /\ isLoading' = l
    /\ UNCHANGED <<onChange, modalProps, hostShown, onChangeCalls, passthroughCalls, raised,
                   contentVars, buttonVars>>

(***************************************************************************)
(* AlertContent                                                            *)
(***************************************************************************)
RootElementAlwaysMeasures(h) ==
    IF h = 0
    THEN [type |-> "View", onLayout |-> TRUE, maxHeight |-> None]
    ELSE [type |-> "ScrollView", onLayout |-> TRUE, maxHeight |-> Some(h)]

\* if (contentHeight === 0) return <View onLayout={onLayout} ...>
\* return <ScrollView style={[..., { maxHeight: contentHeight }]} ...>
RootElement(h) ==
    IF h = 0
    THEN [type |-> "View", onLayout |-> TRUE, maxHeight |-> None]
    ELSE [type |-> "ScrollView", onLayout |-> FALSE, maxHeight |-> Some(h)]

\* the host lays out the root element with height h; the element's onLayout,
\* when it has one, runs setContentHeight(evt.nativeEvent.layout.height)
ContentLayout ==
    /\ Len(layoutLog) < MaxContentLayouts
    /\ \E h \in 0..MaxContentHeight :
          /\ layoutLog' = Append(layoutLog, h)
          /\ contentHeight' = IF RootElement(contentHeight).onLayout THEN h ELSE contentHeight
    /\ UNCHANGED <<alertVars, buttonVars>>

(***************************************************************************)
(* Button: colours                                                         *)
(***************************************************************************)
ColorFields ==
    {"containerBackground", "containerBackgroundDisabled", "containerBackgroundPressed",
     "containerBorder", "containerBorderDisabled", "containerBorderPressed",
     "shadow", "shadowDisabled", "shadowPressed",
     "text", "disabledText", "pressedText",
     "opacity", "opacityDisabled", "opacityPressed"}

ShadowFields == {"shadow", "shadowDisabled", "shadowPressed"}

\* a colour or opacity value: where it comes from and the field it was given for
Token(a, b, f) == <<a, b, f>>

\* a ButtonColors record giving exactly the fields of `present`
ColorsFrom(a, b, present) ==
    [f \in ColorFields |-> IF f \in present THEN Some(Token(a, b, f)) ELSE None]

Variants == {"primary", "transparent"}

\* theme/light/color-mappings, theme/dark/color-mappings: one ButtonColors per
\* variant; the transparent variant is configured without shadow colours
ThemeEntry(scheme, variant) ==
    ColorsFrom(scheme, variant,
               IF variant = "transparent" THEN ColorFields \ ShadowFields ELSE ColorFields)

lightButtonColorMappings == [v \in Variants |-> ThemeEntry("light", v)]

darkButtonColorMappings == [v \in Variants |-> ThemeEntry("dark", v)]

buttonColorsThemeFirst(overrides, variant, scheme) ==
    IF scheme = "dark" THEN darkButtonColorMappings[variant]
    ELSE IF overrides # None THEN overrides[1]
    ELSE lightButtonColorMappings[variant]

\* const buttonColors = useMemo(() => { if (buttonColorOverrides !== undefined) ... })
buttonColors(overrides, variant, scheme) ==
    IF overrides # None THEN overrides[1]
    ELSE IF scheme = "dark" THEN darkButtonColorMappings[variant]
    ELSE lightButtonColorMappings[variant]

(***************************************************************************)
(* Button: style objects and style arrays                                  *)
(***************************************************************************)
EmptyStyle == [k \in {} |-> None]

\* the value a style object gives for key, None when it gives none
Lookup(style, key) == IF key \in DOMAIN style THEN style[key] ELSE None

\* a later entry of a style array replaces the keys it sets
Merge(a, b) ==
    [k \in DOMAIN a \cup DOMAIN b |-> Coalesce(Lookup(b, k), Lookup(a, k))]

RECURSIVE Flatten(_)
Flatten(arr) ==
    IF Len(arr) = 0 THEN EmptyStyle
    ELSE Merge(Flatten(SubSeq(arr, 1, Len(arr) - 1)), arr[Len(arr)])

\* button-style.ts
Literal(v) == Token("literal", "literal", v)

buttonContainer == [borderWidth |-> Some(2)]

buttonSize(m) == [minHeight |-> Some(Token("size", m, "minHeight"))]

buttonWidth(w) == [alignSelf |-> Some(Token("width", w, "alignSelf"))]

buttonTextBase(m) == [fontWeight |-> Some(Token("text", m, "fontWeight"))]

shadow == [position |-> Some(Literal("absolute"))]

noShadow == [height |-> Some(0), width |-> Some(0),
             backgroundColor |-> Some(Literal("transparent"))]
(***************************************************************************)
(* Button: style resolution                                                *)
(***************************************************************************)
ContainerResolvedPressedFirst(c, dis, prs) ==
    IF prs
    THEN [backgroundColor |-> Coalesce(c.containerBackgroundPressed, c.containerBackground),
          borderColor |-> Coalesce(c.containerBorderPressed, c.containerBorder),
          opacity |-> c.opacityPressed]
    ELSE IF dis
    THEN [backgroundColor |-> Coalesce(c.containerBackgroundDisabled, c.containerBackground),
          borderColor |-> Coalesce(c.containerBorderDisabled, c.containerBorder),
          opacity |-> c.opacityDisabled]
    ELSE [backgroundColor |-> c.containerBackground,
          borderColor |-> c.containerBorder,
          opacity |-> c.opacity]

ContainerResolvedOpacityFallback(c, dis, prs) ==
    IF dis
    THEN [backgroundColor |-> Coalesce(c.containerBackgroundDisabled, c.containerBackground),
          borderColor |-> Coalesce(c.containerBorderDisabled, c.containerBorder),
          opacity |-> Coalesce(c.opacityDisabled, c.opacity)]
    ELSE IF prs
    THEN [backgroundColor |-> Coalesce(c.containerBackgroundPressed, c.containerBackground),
          borderColor |-> Coalesce(c.containerBorderPressed, c.containerBorder),
          opacity |-> Coalesce(c.opacityPressed, c.opacity)]
    ELSE [backgroundColor |-> c.containerBackground,
          borderColor |-> c.containerBorder,
          opacity |-> c.opacity]

\* buttonContainerStyle, lines 88-101: buttonBackgroundColor, buttonBorderColor,
\* buttonOpacity
ContainerResolved(c, dis, prs) ==
    IF dis
    THEN [backgroundColor |-> Coalesce(c.containerBackgroundDisabled, c.containerBackground),
          borderColor |-> Coalesce(c.containerBorderDisabled, c.containerBorder),
          opacity |-> c.opacityDisabled]
    ELSE IF prs
    THEN [backgroundColor |-> Coalesce(c.containerBackgroundPressed, c.containerBackground),
          borderColor |-> Coalesce(c.containerBorderPressed, c.containerBorder),
          opacity |-> c.opacityPressed]
    ELSE [backgroundColor |-> c.containerBackground,
          borderColor |-> c.containerBorder,
          opacity |-> c.opacity]

buttonContainerStyleKeepsBorderWidth(c, dis, prs, m, w, body) ==
    LET r == ContainerResolved(c, dis, prs)
    IN  <<buttonContainer, buttonSize(m), buttonWidth(w), r, body>>

\* buttonContainerStyle, lines 103-114: the style array
buttonContainerStyle(c, dis, prs, m, w, body) ==
    LET r == ContainerResolved(c, dis, prs)
    IN  <<buttonContainer, buttonSize(m), buttonWidth(w), r>>
        \o (IF r.borderColor = None THEN <<[borderWidth |-> Some(0)]>> ELSE <<>>)
        \o <<body>>

\* buttonShadowStyle, lines 121-131: buttonShadowColor, buttonOpacity
ShadowResolved(c, dis, prs) ==
    IF dis
    THEN [backgroundColor |-> Coalesce(c.shadowDisabled, c.shadow),
          opacity |-> c.opacityDisabled]
    ELSE IF prs
    THEN [backgroundColor |-> Coalesce(c.shadowPressed, c.shadow),
          opacity |-> c.opacityPressed]
    ELSE [backgroundColor |-> c.shadow, opacity |-> c.opacity]

\* buttonShadowStyle, lines 133-147
buttonShadowStyle(c, dis, prs, m, w) ==
    LET r == ShadowResolved(c, dis, prs)
    IN  IF r.backgroundColor = None THEN <<noShadow>>
        ELSE <<shadow, r, buttonSize(m), buttonWidth(w)>>

\* buttonTextStyle, lines 156-161: buttonTextColor
TextResolved(c, dis, prs) ==
    IF dis THEN [color |-> Coalesce(c.disabledText, c.text)]
    ELSE IF prs THEN [color |-> Coalesce(c.pressedText, c.text)]
    ELSE [color |-> c.text]

\* buttonTextStyle, lines 163-171 (the font weight does not depend on the colours)
buttonTextStyle(c, dis, prs, m) == <<buttonTextBase(m), TextResolved(c, dis, prs)>>

\* Math.floor of a length given in half units
Floor(x) == x \div 2

\* <View style={[buttonShadowStyle(state),
\*               { height: buttonContainerHeight, width: buttonContainerWidth }]} />
ShadowLayerStyle(bundle, height, width) ==
    <<Flatten(bundle), [height |-> height, width |-> width]>>

MeasuredOnce(current, raw) == IF current = None THEN Some(Floor(raw)) ELSE current

\* setButtonContainerHeight(Math.floor(evt.nativeEvent.layout.height)), and the
\* same for the width
Measured(current, raw) == Some(Floor(raw))

\* ---- the Button as rendered in the current state ----
Colors == buttonColors(buttonColorOverrides, buttonVariant, colorScheme)

ContainerStyle ==
    Flatten(buttonContainerStyle(Colors, disabled, pressed, modifier, widthOption,
                                 bodyStyleOverrides))

ShadowStyle == Flatten(buttonShadowStyle(Colors, disabled, pressed, modifier, widthOption))

ShadowLayer ==
    Flatten(ShadowLayerStyle(buttonShadowStyle(Colors, disabled, pressed, modifier, widthOption),
                             buttonContainerHeight, buttonContainerWidth))

TextStyle == Flatten(buttonTextStyle(Colors, disabled, pressed, modifier))

(***************************************************************************)
(* Button: events                                                          *)
(***************************************************************************)
\* the Pressable reports state.pressed = true
PressIn ==
    /\ ~disabled /\ ~pressed
    /\ pressed' = TRUE
    /\ UNCHANGED <<buttonColorOverrides, buttonVariant, colorScheme, disabled, modifier,
                   widthOption, bodyStyleOverrides, buttonContainerHeight,
                   buttonContainerWidth, lastLayout, nLayouts, alertVars, contentVars>>

\* the Pressable reports state.pressed = false
PressOut ==
    /\ pressed
    /\ pressed' = FALSE
    /\ UNCHANGED <<buttonColorOverrides, buttonVariant, colorScheme, disabled, modifier,
                   widthOption, bodyStyleOverrides, buttonContainerHeight,
                   buttonContainerWidth, lastLayout, nLayouts, alertVars, contentVars>>

\* the caller re-renders the Button with the other value of `disabled`
SetDisabled ==
    /\ disabled' = ~disabled
    /\ UNCHANGED <<buttonColorOverrides, buttonVariant, colorScheme, pressed, modifier,
                   widthOption, bodyStyleOverrides, buttonContainerHeight,
                   buttonContainerWidth, lastLayout, nLayouts, alertVars, contentVars>>

\* onLayoutButtonContainer, lines 193-198
LayoutButtonContainer ==
    /\ nLayouts < MaxButtonLayouts
    /\ \E h \in 0..MaxDim, w \in 0..MaxDim :
          /\ lastLayout' = Some([height |-> h, width |-> w])
          /\ buttonContainerHeight' = Measured(buttonContainerHeight, h)
          /\ buttonContainerWidth' = Measured(buttonContainerWidth, w)
    /\ nLayouts' = nLayouts + 1
    /\ UNCHANGED <<buttonColorOverrides, buttonVariant, colorScheme, disabled, pressed,
                   modifier, widthOption, bodyStyleOverrides, alertVars, contentVars>>

(***************************************************************************)
(* Initial states and specifications                                       *)
(***************************************************************************)
AlertIdle ==
    /\ visible = FALSE /\ isLoading = None /\ onChange = None /\ modalProps = {}
    /\ hostShown = FALSE /\ onChangeCalls = <<>> /\ passthroughCalls = <<>>
    /\ raised = FALSE /\ alertEvent = "mount" /\ nAlertEvents = 0

ContentIdle == contentHeight = 0 /\ layoutLog = <<>>

ButtonUnmeasured ==
    /\ buttonContainerHeight = None /\ buttonContainerWidth = None
    /\ lastLayout = None /\ nLayouts = 0
    /\ pressed = FALSE

ButtonIdle ==
    /\ ButtonUnmeasured
    /\ buttonColorOverrides = None /\ buttonVariant = "primary" /\ colorScheme = "light"
    /\ disabled = FALSE /\ modifier = "default" /\ widthOption = "stretch"
    /\ bodyStyleOverrides = EmptyStyle

\* ---- Alert: a mount with any props ----
AlertInit ==
    /\ visible \in BOOLEAN
    /\ isLoading \in {None, Some(TRUE), Some(FALSE)}
    /\ onChange \in {None, Some("onChange")}
    /\ modalProps \in SUBSET PassthroughKeys
    /\ hostShown = FALSE /\ onChangeCalls = <<>> /\ passthroughCalls = <<>>
    /\ raised = FALSE /\ alertEvent = "mount" /\ nAlertEvents = 0
    /\ ContentIdle /\ ButtonIdle

AlertNext == HostShow \/ HostDismiss \/ HostRequestClose \/ ContextDismiss \/ SetAlertProps

SpecAlert == AlertInit /\ [][AlertNext]_vars

\* ---- AlertContent: one mount ----
ContentInit == ContentIdle /\ AlertIdle /\ ButtonIdle

ContentNext == ContentLayout

SpecContent == ContentInit /\ [][ContentNext]_vars

\* ---- Button style resolution over every ButtonColors record ----
BodyOverrides ==
    {EmptyStyle,
     [borderWidth |-> Some(1)],
     [borderColor |-> Some(Token("body", "body", "borderColor"))]}

StyleInit ==
    /\ ButtonUnmeasured
    /\ buttonColorOverrides \in
          {Some(ColorsFrom("override", "override", P)) : P \in SUBSET ColorFields}
    /\ buttonVariant = "primary" /\ colorScheme = "light"
    /\ disabled \in BOOLEAN
    /\ modifier = "default" /\ widthOption = "stretch"
    /\ bodyStyleOverrides \in BodyOverrides
    /\ AlertIdle /\ ContentIdle

StyleNext == PressIn \/ PressOut \/ SetDisabled

SpecStyle == StyleInit /\ [][StyleNext]_vars

\* ---- Button: one mount, themed or overridden, with layout events ----
OverrideChoices ==
    {None,
     Some(ColorsFrom("override", "override", ColorFields)),
     Some(ColorsFrom("override", "override", ColorFields \ ShadowFields)),
     Some(ColorsFrom("override", "override", {"containerBackground", "text", "shadowPressed"}))}

ButtonInit ==
    /\ ButtonUnmeasured
    /\ buttonColorOverrides \in OverrideChoices
    /\ buttonVariant \in Variants
    /\ colorScheme \in {"light", "dark"}
    /\ disabled \in BOOLEAN
    /\ modifier \in {"default", "small"}
    /\ widthOption \in {"stretch", "content"}
    /\ bodyStyleOverrides = EmptyStyle
    /\ AlertIdle /\ ContentIdle

ButtonNext == PressIn \/ PressOut \/ SetDisabled \/ LayoutButtonContainer

SpecButton == ButtonInit /\ [][ButtonNext]_vars
(***************************************************************************)
(* Properties                                                              *)
(***************************************************************************)
\* what one call of onChange?.(v) is expected to add to the log
Expected(v) == IF onChange = None THEN <<>> ELSE <<v>>

AlertEventStep == nAlertEvents' # nAlertEvents

NonzeroLayouts == {i \in 1..Len(layoutLog) : layoutLog[i] # 0}

FirstNonzeroLayout ==
    layoutLog[CHOOSE i \in NonzeroLayouts : \A j \in NonzeroLayouts : i <= j]

\* C1: AlertContent renders the non-scrolling View as long as every measured
\* height was 0, and from the first nonzero measured height on it renders the
\* ScrollView with maxHeight equal to that first nonzero height, whatever layout
\* events follow (so it never goes back to the View).
C1_TwoPhaseRendering ==
    IF NonzeroLayouts = {}
    THEN /\ RootElement(contentHeight).type = "View"
         /\ RootElement(contentHeight).maxHeight = None
    ELSE /\ RootElement(contentHeight).type = "ScrollView"
         /\ RootElement(contentHeight).maxHeight = Some(FirstNonzeroLayout)

C1_Witness ==
    /\ Len(layoutLog) >= 3
    /\ layoutLog[1] = 0 /\ layoutLog[2] = 2 /\ layoutLog[3] = 0
    /\ RootElement(contentHeight).type = "ScrollView"

\* C2: the modal's visible prop is true iff visible is true or isLoading is
\* true, and the content is the loading overlay iff isLoading is true (the
\* AlertContainer otherwise), for every value of the two props.
C2_VisibilityAndContent ==
    /\ ModalVisible(visible, isLoading) <=> (visible \/ isLoading = Some(TRUE))
    /\ isLoading = Some(TRUE) => Content(isLoading) = "LoadingIndicatorOverlay"
    /\ isLoading # Some(TRUE) => Content(isLoading) = "AlertContainer"

C2_Witness ==
    /\ ~visible /\ isLoading = Some(TRUE) /\ hostShown
    /\ Content(isLoading) = "LoadingIndicatorOverlay"

\* C3 as claimed: for every props configuration, passthrough modal options
\* included, a context dismiss() and a host close request each invoke
\* onChange(false) exactly as the other does.
C3_DismissSameAsRequestClose ==
    [][(AlertEventStep /\ alertEvent' \in {"requestClose", "contextDismiss"})
         => onChangeCalls' = onChangeCalls \o Expected(FALSE)]_vars

\* C3 amended: when the passthrough modal options do not supply
\* onRequestClose, a context dismiss() and a host close request each invoke
\* onChange(false) exactly as the other does.
C3_DismissSameAsOwnRequestClose ==
    [][(AlertEventStep /\ alertEvent' \in {"requestClose", "contextDismiss"}
          /\ "onRequestClose" \notin modalProps)
         => onChangeCalls' = onChangeCalls \o Expected(FALSE)]_vars

C3_Witness ==
    /\ alertEvent = "contextDismiss" /\ hostShown
    /\ "onRequestClose" \notin modalProps /\ "animationType" \in modalProps
    /\ onChangeCalls = <<FALSE, FALSE>> /\ passthroughCalls = <<"onShow">>

\* C8 as claimed: a host show event invokes onChange(true) once, a host dismiss
\* or close request invokes onChange(false) once, a change of visible/isLoading
\* invokes nothing, and with onChange absent every event and dismiss() does
\* nothing and raises nothing.
C8_ReportsHostEvents ==
    [][AlertEventStep =>
         /\ alertEvent' = "show" => onChangeCalls' = onChangeCalls \o Expected(TRUE)
         /\ alertEvent' \in {"dismiss", "requestClose", "contextDismiss"}
               => onChangeCalls' = onChangeCalls \o Expected(FALSE)
         /\ alertEvent' = "props" => onChangeCalls' = onChangeCalls
         /\ ~raised']_vars

\* C8 amended: the same, for the host events whose handler the passthrough
\* modal options do not replace (onShow, onDismiss, onRequestClose).
C8_ReportsOwnHostEvents ==
    [][AlertEventStep =>
         /\ (alertEvent' = "show" /\ "onShow" \notin modalProps)
               => onChangeCalls' = onChangeCalls \o Expected(TRUE)
         /\ (alertEvent' = "dismiss" /\ "onDismiss" \notin modalProps)
               => onChangeCalls' = onChangeCalls \o Expected(FALSE)
         /\ (alertEvent' = "requestClose" /\ "onRequestClose" \notin modalProps)
               => onChangeCalls' = onChangeCalls \o Expected(FALSE)
         /\ alertEvent' = "contextDismiss" => onChangeCalls' = onChangeCalls \o Expected(FALSE)
         /\ alertEvent' = "props" => onChangeCalls' = onChangeCalls
         /\ ~raised']_vars

C8_Witness ==
    /\ alertEvent = "dismiss" /\ nAlertEvents = 4
    /\ modalProps = {} /\ onChange # None
    /\ onChangeCalls = <<TRUE, FALSE, FALSE>>

\* the state-specific field of a group, by the state selected
Selected(dis, prs, whenDisabled, whenPressed, base) ==
    IF dis THEN whenDisabled ELSE IF prs THEN whenPressed ELSE base

\* C4: when disabled, the resolved background, border, shadow and text colours
\* and the opacity are the disabled-branch values, and the three bundles are the
\* same for pressed and for not pressed.
C4_DisabledPrecedence ==
    disabled =>
      LET c == Colors
          m == modifier
          w == widthOption
      IN  /\ ContainerResolved(c, TRUE, pressed) =
                [backgroundColor |-> Coalesce(c.containerBackgroundDisabled, c.containerBackground),
                 borderColor |-> Coalesce(c.containerBorderDisabled, c.containerBorder),
                 opacity |-> c.opacityDisabled]
          /\ ShadowResolved(c, TRUE, pressed) =
                [backgroundColor |-> Coalesce(c.shadowDisabled, c.shadow),
                 opacity |-> c.opacityDisabled]
          /\ TextResolved(c, TRUE, pressed) = [color |-> Coalesce(c.disabledText, c.text)]
          /\ Flatten(buttonContainerStyle(c, TRUE, TRUE, m, w, bodyStyleOverrides))
                = Flatten(buttonContainerStyle(c, TRUE, FALSE, m, w, bodyStyleOverrides))
          /\ Flatten(buttonShadowStyle(c, TRUE, TRUE, m, w))
                = Flatten(buttonShadowStyle(c, TRUE, FALSE, m, w))
          /\ Flatten(buttonTextStyle(c, TRUE, TRUE, m))
                = Flatten(buttonTextStyle(c, TRUE, FALSE, m))

C4_Witness ==
    /\ disabled /\ pressed
    /\ \A f \in ColorFields : Colors[f] # None
    /\ Lookup(ContainerStyle, "backgroundColor")
          = Some(Token("override", "override", "containerBackgroundDisabled"))

\* C5: whenever no shadow colour is resolved, the shadow layer has height 0,
\* width 0 and a transparent background, also after the container was measured.
C5_NoShadowLayerCollapsed ==
    ShadowResolved(Colors, disabled, pressed).backgroundColor = None
      => /\ Lookup(ShadowLayer, "height") = Some(0)
         /\ Lookup(ShadowLayer, "width") = Some(0)
         /\ Lookup(ShadowLayer, "backgroundColor") = Some(Literal("transparent"))

ColourKeys == {"backgroundColor", "borderColor", "opacity", "color"}

\* the theme or override values a style bundle carries
TokensOf(style) ==
    {t \in {style[k][1] : k \in {x \in DOMAIN style \cap ColourKeys : style[x] # None}} :
        t[1] # "literal"}

BundleTokens == TokensOf(ContainerStyle) \cup TokensOf(ShadowStyle) \cup TokensOf(TextStyle)

\* C6: with buttonColorOverrides supplied the resolved ButtonColors are the
\* override and every colour of the three bundles comes from it, for every
\* variant and colour scheme; without an override they are the table entry of
\* the variant, from the dark table iff colorScheme is 'dark'.
C6_OverrideReplacesTheme ==
    IF buttonColorOverrides # None
    THEN /\ Colors = buttonColorOverrides[1]
         /\ \A t \in BundleTokens : t[1] = "override"
    ELSE /\ Colors = IF colorScheme = "dark" THEN darkButtonColorMappings[buttonVariant]
                     ELSE lightButtonColorMappings[buttonVariant]
         /\ \A t \in BundleTokens : t[1] = colorScheme /\ t[2] = buttonVariant

C6_Witness ==
    /\ buttonColorOverrides # None /\ colorScheme = "dark" /\ buttonVariant = "transparent"
    /\ pressed /\ nLayouts > 0
    /\ Token("override", "override", "containerBackgroundPressed") \in BundleTokens

\* C7 as claimed: once the layout is measured, later layout events do not
\* change it.
C7_MeasuredOnce ==
    [][buttonContainerHeight # None
         => /\ buttonContainerHeight' = buttonContainerHeight
            /\ buttonContainerWidth' = buttonContainerWidth]_vars

\* C7 amended: the measured layout is absent until the first layout event,
\* and after any layout event it is the floor of the latest event's height and
\* width; it never returns to absent.
C7_MeasuredFollowsLayout ==
    IF nLayouts = 0
    THEN buttonContainerHeight = None /\ buttonContainerWidth = None
    ELSE /\ lastLayout # None
         /\ buttonContainerHeight = Some(lastLayout[1].height \div 2)
         /\ buttonContainerWidth = Some(lastLayout[1].width \div 2)

C7_Witness ==
    /\ nLayouts = 2
    /\ lastLayout = Some([height |-> 3, width |-> 0])
    /\ buttonContainerHeight = Some(1) /\ buttonContainerWidth = Some(0)

\* C9 as claimed: for every bodyStyleOverrides, an unset resolved border colour
\* makes the effective border width of the container bundle zero.
C9_NoBorderColorNoBorderWidth ==
    ContainerResolved(Colors, disabled, pressed).borderColor = None
      => Lookup(ContainerStyle, "borderWidth") = Some(0)

\* C9 amended: an unset resolved border colour makes the effective border width
\* of the container bundle zero unless bodyStyleOverrides sets borderWidth
\* itself.
C9_NoBorderColorNoOwnBorderWidth ==
    (/\ ContainerResolved(Colors, disabled, pressed).borderColor = None
     /\ Lookup(bodyStyleOverrides, "borderWidth") = None)
      => Lookup(ContainerStyle, "borderWidth") = Some(0)

C9_Witness ==
    /\ pressed /\ ~disabled
    /\ Colors.containerBorderDisabled # None
    /\ ContainerResolved(Colors, disabled, pressed).borderColor = None
    /\ Lookup(bodyStyleOverrides, "borderColor") # None
    /\ Lookup(ContainerStyle, "borderWidth") = Some(0)

\* C10: each resolved background, border and shadow colour is the selected
\* state's colour when set and the base colour otherwise; the resolved opacity
\* is the selected state's opacity field itself, unset when that field is
\* unset; container and shadow resolve the same opacity.
C10_FallbackForColoursOnly ==
    LET c == Colors
        r == ContainerResolved(c, disabled, pressed)
        sh == ShadowResolved(c, disabled, pressed)
        bg == Selected(disabled, pressed, c.containerBackgroundDisabled,
                       c.containerBackgroundPressed, c.containerBackground)
        bd == Selected(disabled, pressed, c.containerBorderDisabled,
                       c.containerBorderPressed, c.containerBorder)
        sc == Selected(disabled, pressed, c.shadowDisabled, c.shadowPressed, c.shadow)
        op == Selected(disabled, pressed, c.opacityDisabled, c.opacityPressed, c.opacity)
    IN  /\ r.backgroundColor = IF bg # None THEN bg ELSE c.containerBackground
        /\ r.borderColor = IF bd # None THEN bd ELSE c.containerBorder
        /\ sh.backgroundColor = IF sc # None THEN sc ELSE c.shadow
        /\ r.opacity = op
        /\ sh.opacity = op
        /\ Lookup(ContainerStyle, "opacity") = op
        /\ sh.backgroundColor # None => Lookup(ShadowStyle, "opacity") = op

C10_Witness ==
    /\ pressed /\ ~disabled
    /\ Colors.opacityPressed = None /\ Colors.opacity # None
    /\ Colors.containerBackgroundPressed = None /\ Colors.containerBackground # None
    /\ Colors.shadowPressed = None /\ Colors.shadow # None
    /\ Lookup(ContainerStyle, "opacity") = None
    /\ Lookup(ContainerStyle, "backgroundColor") = Colors.containerBackground
====
